---- MODULE Spec2Model ----
(***************************************************************************)
(* Model of the Multimodal Document Analyzer (src/app): the Text Extractor *)
(* (ocr_utils.py), the Summarizer (llm_utils.py) and the Streamlit UI      *)
(* shell (main.py).                                                        *)
(*                                                                         *)
(* Python values: a str is a sequence of 1-character strings, a bytes      *)
(* object a record [size, data] with data a sequence of integers 0..255,   *)
(* None is the tagged tuple <<"None">>.  The third-party libraries         *)
(* (pytesseract, pdfplumber, pdf2image, docx2txt, PIL, the hosted model)   *)
(* answer through a record `world` chosen with each call: what each of     *)
(* them returns, or that it raises.                                        *)
(***************************************************************************)
EXTENDS Integers, Sequences, FiniteSets, TLC

VARIABLES
    pc,                     \* "idle": no call in progress; "done": a call has ended, `call` holds it
    call,                   \* the call that ended last: operation, arguments, world, outcome
    tmpfiles,               \* number of files in the temp directory left by extract_text
    environ,                \* os.environ["GOOGLE_API_KEY"], or None when unset
    _PDF2IMAGE_AVAILABLE    \* ocr_utils._PDF2IMAGE_AVAILABLE, set at import

vars == <<pc, call, tmpfiles, environ, _PDF2IMAGE_AVAILABLE>>

\* ---------------------------------------------------------------- bounds

MaxPages == 2       \* pages in a PDF
MaxBytes == 3       \* bytes in a file handed to the UTF-8 path
MaxTmpFiles == 2    \* .docx extractions in one behaviour
SizeMargin == 1     \* upload sizes within this distance of max_size

\* ------------------------------------------------------- Python values

None == <<"None">>

\* bool(v) of an Optional[str]
Truthy(v) == v # None /\ v # <<>>

\* a returned value / a raised exception, with the library calls made on the way
Return(v, events) ==
    [raised |-> FALSE, value |-> v, exc |-> "", msg |-> <<>>, events |-> events]

Raise(exc, msg, events) ==
    [raised |-> TRUE, value |-> None, exc |-> exc, msg |-> msg, events |-> events]

\* one call of a library function
Ev(fn, first, last, config) ==
    [fn |-> fn, first |-> first, last |-> last, config |-> config]

\* str.lower on ASCII
LowerChar(c) ==
    CASE c = "A" -> "a" [] c = "B" -> "b" [] c = "C" -> "c" [] c = "D" -> "d"
      [] c = "E" -> "e" [] c = "F" -> "f" [] c = "G" -> "g" [] c = "H" -> "h"
      [] c = "I" -> "i" [] c = "J" -> "j" [] c = "K" -> "k" [] c = "L" -> "l"
      [] c = "M" -> "m" [] c = "N" -> "n" [] c = "O" -> "o" [] c = "P" -> "p"
      [] c = "Q" -> "q" [] c = "R" -> "r" [] c = "S" -> "s" [] c = "T" -> "t"
      [] c = "U" -> "u" [] c = "V" -> "v" [] c = "W" -> "w" [] c = "X" -> "x"
      [] c = "Y" -> "y" [] c = "Z" -> "z" [] OTHER -> c

lower(s) == [i \in 1..Len(s) |-> LowerChar(s[i])]

\* str.strip(): leading and trailing whitespace removed
Whitespace == {" ", "\n", "\t", "\r"}

RECURSIVE lstrip(_)
lstrip(s) ==
    IF s # <<>> /\ Head(s) \in Whitespace THEN lstrip(Tail(s)) ELSE s

RECURSIVE rstrip(_)
rstrip(s) ==
    IF s # <<>> /\ s[Len(s)] \in Whitespace
    THEN rstrip(SubSeq(s, 1, Len(s) - 1)) ELSE s

strip(s) == rstrip(lstrip(s))

\* str.rfind(ch): the last index (from 0) of ch in p, -1 when absent
RECURSIVE rfind_from(_, _, _)
rfind_from(p, ch, i) ==
    IF i = 0 THEN -1
    ELSE IF p[i] = ch THEN i - 1 ELSE rfind_from(p, ch, i - 1)

rfind(p, ch) == rfind_from(p, ch, Len(p))

\* os.path.splitext (posixpath -> genericpath._splitext): the extension runs
\* from the last dot of the last path component; leading dots are not one.
RECURSIVE splitext_scan(_, _, _)
splitext_scan(p, filenameIndex, dotIndex) ==
    IF filenameIndex < dotIndex
    THEN IF p[filenameIndex + 1] # "."
         THEN <<SubSeq(p, 1, dotIndex), SubSeq(p, dotIndex + 1, Len(p))>>
         ELSE splitext_scan(p, filenameIndex + 1, dotIndex)
    ELSE <<p, <<>>>>

splitext(p) ==
    LET sepIndex == rfind(p, "/")
        dotIndex == rfind(p, ".")
    IN  IF dotIndex > sepIndex
        THEN splitext_scan(p, sepIndex + 1, dotIndex)
        ELSE <<p, <<>>>>

\* len(file_bytes)
len(file_bytes) == file_bytes.size

\* ------------------------------------------------- bytes.decode("utf-8")

\* The strict decoder: each lead byte fixes the length of its sequence and
\* the range of its first continuation byte (no overlong forms, no
\* surrogates, nothing above U+10FFFF); any other byte raises.
Cont(b) == b \in 128..191

utf8_first(data) ==
    LET b1 == data[1]
        n  == Len(data)
    IN  IF b1 <= 127 THEN <<1, b1>>
        ELSE IF b1 \in 194..223
        THEN IF n >= 2 /\ Cont(data[2])
             THEN <<2, (b1 - 192) * 64 + (data[2] - 128)>>
             ELSE <<0, 0>>
        ELSE IF b1 \in 224..239
        THEN IF /\ n >= 3
                /\ Cont(data[2])
                /\ Cont(data[3])
                /\ (b1 = 224 => data[2] >= 160)
                /\ (b1 = 237 => data[2] <= 159)
             THEN <<3, (b1 - 224) * 4096 + (data[2] - 128) * 64 + (data[3] - 128)>>
             ELSE <<0, 0>>
        ELSE IF b1 \in 240..244
        THEN IF /\ n >= 4
                /\ Cont(data[2])
                /\ Cont(data[3])
                /\ Cont(data[4])
                /\ (b1 = 240 => data[2] >= 144)
                /\ (b1 = 244 => data[2] <= 143)
             THEN <<4, (b1 - 240) * 262144 + (data[2] - 128) * 4096
                       + (data[3] - 128) * 64 + (data[4] - 128)>>
             ELSE <<0, 0>>
        ELSE <<0, 0>>

\* the code points of data, or <<-1>> when data is not valid UTF-8
UnicodeDecodeError == <<-1>>

RECURSIVE utf8_decode(_)
utf8_decode(data) ==
    IF data = <<>> THEN <<>>
    ELSE LET f == utf8_first(data)
         IN  IF f[1] = 0 THEN UnicodeDecodeError
             ELSE LET rest == utf8_decode(SubSeq(data, f[1] + 1, Len(data)))
                  IN  IF rest = UnicodeDecodeError THEN UnicodeDecodeError
                      ELSE <<f[2]>> \o rest

\* chr(cp): a character is a 1-character string; a code point outside
\* printable ASCII (and the backquote, 96) is written as its decimal number
Printable ==
    <<
       " ", "!", "\"", "#", "$", "%", "&", "'", "(", ")", "*", "+",
       ",", "-", ".", "/", "0", "1", "2", "3", "4", "5", "6", "7",
       "8", "9", ":", ";", "<", "=", ">", "?", "@", "A", "B", "C",
       "D", "E", "F", "G", "H", "I", "J", "K", "L", "M", "N", "O",
       "P", "Q", "R", "S", "T", "U", "V", "W", "X", "Y", "Z", "[",
       "\\", "]", "^", "_", "96", "a", "b", "c", "d", "e", "f", "g",
       "h", "i", "j", "k", "l", "m", "n", "o", "p", "q", "r", "s",
       "t", "u", "v", "w", "x", "y", "z", "{", "|", "}", "~"
    >>

chr(cp) ==
    IF cp \in 32..126 THEN Printable[cp - 31]
    ELSE IF cp = 10 THEN "\n"
    ELSE IF cp = 9 THEN "\t"
    ELSE IF cp = 13 THEN "\r"
    ELSE ToString(cp)

\* file_bytes.decode("utf-8"): the str, or the tag UnicodeDecodeError
decode(file_bytes) ==
    LET cps == utf8_decode(file_bytes.data)
    IN  IF cps = UnicodeDecodeError THEN <<"UnicodeDecodeError">>
        ELSE [i \in 1..Len(cps) |-> chr(cps[i])]

\* ------------------------------------------------------------ ocr_utils

\* what a library raises is a tagged tuple, never equal to a str
TesseractError == <<"TesseractError">>
DocxError == <<"BadZipFile">>

\* Image.open(io.BytesIO(file_bytes)): the uploaded image is image 0
Image_open(world) ==
    IF world.image_ok THEN Return(0, <<Ev("Image.open", 0, 0, <<>>)>>)
    ELSE Raise("UnidentifiedImageError", <<>>, <<Ev("Image.open", 0, 0, <<>>)>>)

\* pytesseract.image_to_string(image, config=config)
image_to_string(image, config, world) ==
    LET ev == Ev("pytesseract.image_to_string", image, image, config)
    IN  IF world.ocr[image] = TesseractError
        THEN Raise("TesseractError", <<>>, <<ev>>)
        ELSE Return(world.ocr[image], <<ev>>)

_ocr_image(image, lang, world) ==
    LET config == IF Truthy(lang) THEN <<" ", "-", "l", " ">> \o lang ELSE <<>>
    IN  image_to_string(image, config, world)

\* pdf2image.convert_from_bytes(file_bytes, first_page=, last_page=): one image
\* per page of the range, image i being the picture of page i
convert_from_bytes(world, first_page, last_page) ==
    LET ev == Ev("convert_from_bytes", first_page, last_page, <<>>)
        last == IF last_page < Len(world.pages) THEN last_page ELSE Len(world.pages)
    IN  IF ~world.raster[first_page]
        THEN Raise("PDFPageCountError", <<>>, <<ev>>)
        ELSE Return([i \in 1..(last - first_page + 1) |-> first_page + i - 1], <<ev>>)

\* needs_ocr without the test of the import flag
needs_ocr_unguarded(page_text) ==
    strip(page_text) = <<>>

\* line 79: the page goes to OCR
needs_ocr(page_text) ==
    strip(page_text) = <<>> /\ _PDF2IMAGE_AVAILABLE

\* page_range with the first page left at 1
page_range_from_start(page_num) == <<1, page_num + 1>>

\* line 81-83: the page range handed to the rasteriser
page_range(page_num) == <<page_num + 1, page_num + 1>>

\* append_page without the newline
append_page_bare(text, page_text) == text \o page_text

\* line 86: text += page_text + "\n"
append_page(text, page_text) == text \o page_text \o <<"\n">>

\* lines 84-85: for img in images: page_text += _ocr_image(img)
RECURSIVE ocr_images(_, _, _, _)
ocr_images(images, page_text, world, events) ==
    IF images = <<>> THEN Return(page_text, events)
    ELSE LET r == _ocr_image(Head(images), None, world)
         IN  IF r.raised THEN Raise(r.exc, r.msg, events \o r.events)
             ELSE ocr_images(Tail(images), page_text \o r.value, world,
                             events \o r.events)

\* lines 76-86: for page_num, page in enumerate(pdf.pages)
RECURSIVE pdf_pages(_, _, _, _)
pdf_pages(page_num, world, text, events) ==
    IF page_num >= Len(world.pages) THEN Return(text, events)
    ELSE LET extracted == world.pages[page_num + 1]
             page_text == IF Truthy(extracted) THEN extracted ELSE <<>>
         IN  IF needs_ocr(page_text)
             THEN LET range == page_range(page_num)
                      images == convert_from_bytes(world, range[1], range[2])
                  IN  IF images.raised
                      THEN Raise(images.exc, images.msg, events \o images.events)
                      ELSE LET o == ocr_images(images.value, page_text, world,
                                               events \o images.events)
                           IN  IF o.raised THEN o
                               ELSE pdf_pages(page_num + 1, world,
                                              append_page(text, o.value), o.events)
             ELSE pdf_pages(page_num + 1, world, append_page(text, page_text), events)

_extract_text_from_pdf_bytes(file_bytes, world) ==
    LET ev == Ev("pdfplumber.open", 0, 0, <<>>)
    IN  IF ~world.pdf_ok THEN Raise("PDFSyntaxError", <<>>, <<ev>>)
        ELSE pdf_pages(0, world, <<>>, <<ev>>)

\* tempfile.NamedTemporaryFile(delete=...) as a context manager: leaving the
\* block closes the file, and closing removes it only when delete is set.
\* The number of files the block leaves behind.
NamedTemporaryFile_exit(delete) == IF delete THEN 0 ELSE 1

\* line 120: the delete argument of the temporary file
docx_tmp_delete == FALSE

docx2txt_process(world) ==
    LET ev == Ev("docx2txt.process", 0, 0, <<>>)
    IN  IF world.docx = DocxError THEN Raise("BadZipFile", <<>>, <<ev>>)
        ELSE Return(world.docx, <<ev>>)

Unsupported == <<"U", "n", "s", "u", "p", "p", "o", "r", "t", "e", "d", " ",
                 "f", "i", "l", "e", " ", "f", "o", "r", "m", "a", "t", ":", " ">>

\* normalise_ext without the call of lower()
normalise_ext_as_is(ext) == ext

\* line 110: ext = ext.lower()
normalise_ext(ext) == lower(ext)

\* the outcome of extract_text, with the temp files the call left behind
extract_text(file_bytes, filename, lang, world) ==
    LET ext == normalise_ext(splitext(filename)[2])
        NoTmp(r) == r @@ [tmp_left |-> 0]
    IN  IF ext \in {<<".", "p", "n", "g">>, <<".", "j", "p", "g">>,
                    <<".", "j", "p", "e", "g">>}
        THEN LET image == Image_open(world)
             IN  IF image.raised THEN NoTmp(image)
                 ELSE LET r == _ocr_image(image.value, lang, world)
                      IN  NoTmp([r EXCEPT !.events = image.events \o r.events])
        ELSE IF ext = <<".", "p", "d", "f">>
        THEN NoTmp(_extract_text_from_pdf_bytes(file_bytes, world))
        ELSE IF ext = <<".", "d", "o", "c", "x">>
        THEN LET tmp == Ev("tempfile.NamedTemporaryFile", 0, 0, ext)
                 r == docx2txt_process(world)
             IN  [r EXCEPT !.events = <<tmp>> \o r.events]
                   @@ [tmp_left |-> NamedTemporaryFile_exit(docx_tmp_delete)]
        ELSE LET text == decode(file_bytes)
             IN  IF text = <<"UnicodeDecodeError">>
                 THEN NoTmp(Raise("ValueError", Unsupported \o ext, <<>>))
                 ELSE NoTmp(Return(text, <<>>))

\* ------------------------------------------------------------ llm_utils

\* the names llm_utils binds at module level (lines 10-15, 17, 39)
llm_utils_globals ==
    {"os", "Optional", "ChatGoogleGenerativeAI", "PromptTemplate", "LLMChain",
     "_get_api_key", "summarize_text"}

NameNotDefined ==
    <<"n", "a", "m", "e", " ", "'", "Y", "O", "U", "R", "_", "A", "P", "I",
      "_", "K", "E", "Y", "'", " ", "i", "s", " ", "n", "o", "t", " ", "d",
      "e", "f", "i", "n", "e", "d">>

NoApiKey ==
    <<"N", "o", " ", "G", "o", "o", "g", "l", "e", " ", "A", "P", "I", " ",
      "k", "e", "y", " ", "p", "r", "o", "v", "i", "d", "e", "d", ".", " ",
      " ", "S", "e", "t", " ", "t", "h", "e", " ", "G", "O", "O", "G", "L",
      "E", "_", "A", "P", "I", "_", "K", "E", "Y", " ", "e", "n", "v", "i",
      "r", "o", "n", "m", "e", "n", "t", " ", "v", "a", "r", "i", "a", "b",
      "l", "e">>

\* the read of a module-level name: its value (here an opaque object), or
\* NameError when the module does not bind it
LoadGlobal(name) ==
    IF name \in llm_utils_globals THEN Return(<<"<object ", name, ">">>, <<>>)
    ELSE Raise("NameError", NameNotDefined, <<>>)

\* os.getenv("GOOGLE_API_KEY")
getenv == environ

\* line 31 reads the name YOUR_API_KEY, not the parameter explicit_key
_get_api_key(explicit_key) ==
    LET placeholder == LoadGlobal("YOUR_API_KEY")
    IN  IF placeholder.raised THEN placeholder
        ELSE LET api_key == IF Truthy(placeholder.value) THEN placeholder.value
                            ELSE getenv
             IN  IF ~Truthy(api_key) THEN Raise("ValueError", NoApiKey, <<>>)
                 ELSE Return(api_key, <<>>)

\* a reply of the model client: its type, its content attribute and its
\* "content" item (Absent when it has none), and what str() makes of it
Absent == <<"<absent>">>

hasattr_content(result) == result.attr_content # Absent

isinstance_dict(result) == result.type \in {"dict", "dict subclass"}

has_key_content(result) == result.key_content # Absent

\* lines 86-90
unwrap(result) ==
    IF hasattr_content(result) THEN result.attr_content
    ELSE IF isinstance_dict(result) /\ has_key_content(result)
    THEN result.key_content
    ELSE result.str

summarize_text(text, api_key, world) ==
    LET key == _get_api_key(api_key)
    IN  IF key.raised THEN key
        ELSE LET llm == Ev("ChatGoogleGenerativeAI", 0, 0, key.value)
                 invoke == Ev("chain.invoke", 0, 0, text)
             IN  IF ~world.invoke_ok
                 THEN Raise("ChatGoogleGenerativeAIError", <<>>, <<llm, invoke>>)
                 ELSE Return(unwrap(world.reply), <<llm, invoke>>)

\* ----------------------------------------------------------------- main

ErrTooLarge ==
    <<"F", "i", "l", "e", " ", "e", "x", "c", "e", "e", "d", "s", " ", "m",
      "a", "x", "i", "m", "u", "m", " ", "a", "l", "l", "o", "w", "e", "d",
      " ", "s", "i", "z", "e", " ", "o", "f", " ", "1", "0", " ", "M", "B",
      ".">>

ErrExtract ==
    <<"E", "r", "r", "o", "r", " ", "e", "x", "t", "r", "a", "c", "t", "i",
      "n", "g", " ", "t", "e", "x", "t", ":", " ">>

ErrSummarise ==
    <<"E", "r", "r", "o", "r", " ", "d", "u", "r", "i", "n", "g", " ", "s",
      "u", "m", "m", "a", "r", "i", "s", "a", "t", "i", "o", "n", ":", " ">>

WarnNoSummary ==
    <<"N", "o", " ", "s", "u", "m", "m", "a", "r", "y", " ", "w", "a", "s",
      " ", "g", "e", "n", "e", "r", "a", "t", "e", "d", ".", " ", "P", "l",
      "e", "a", "s", "e", " ", "c", "h", "e", "c", "k", " ", "y", "o", "u",
      "r", " ", "G", "e", "m", "i", "n", "i", " ", "A", "P", "I", " ", "k",
      "e", "y", " ", "o", "r", " ", "t", "r", "y", " ", "w", "i", "t", "h",
      " ", "a", "n", "o", "t", "h", "e", "r", " ", "d", "o", "c", "u", "m",
      "e", "n", "t", ".">>

\* one Streamlit element put on the page
UI(widget, text) == [widget |-> widget, text |-> text]

\* no call of the component in this run
NotCalled == Return(None, <<>>) @@ [tmp_left |-> 0]

\* line 35
max_size == 10 * 1024 * 1024

\* exceeds_max_size with >= for >
exceeds_max_size_inclusive(file_bytes) == len(file_bytes) >= max_size

\* line 36
exceeds_max_size(file_bytes) == len(file_bytes) > max_size

\* line 27-29: st.file_uploader(type=[...]) takes a file by its extension
file_uploader_accepts(filename) ==
    lower(splitext(filename)[2]) \in
        {<<".", "p", "d", "f">>, <<".", "d", "o", "c", "x">>, <<".", "j", "p", "g">>,
         <<".", "j", "p", "e", "g">>, <<".", "p", "n", "g">>}

\* lines 52-64: the button and the summary
main_summarise(text, button, world) ==
    IF ~button
    THEN [ui |-> <<UI("button", <<>>)>>, summarize_called |-> FALSE,
          summarize |-> NotCalled]
    ELSE LET r == summarize_text(text, None, world)
             shown == IF r.raised THEN <<UI("error", ErrSummarise \o r.msg)>>
                      ELSE IF Truthy(r.value)
                      THEN <<UI("subheader", <<>>), UI("write", r.value)>>
                      ELSE <<UI("subheader", <<>>), UI("warning", WarnNoSummary)>>
         IN  [ui |-> <<UI("button", <<>>)>> \o shown, summarize_called |-> TRUE,
              summarize |-> r @@ [tmp_left |-> 0]]

\* main_extract without the return of line 46: the run goes on to the button
main_extract_no_return(file_bytes, filename, button, world) ==
    LET r == extract_text(file_bytes, filename, None, world)
        s == main_summarise(IF r.raised THEN <<>> ELSE r.value, button, world)
        shown == IF r.raised THEN UI("error", ErrExtract \o r.msg)
                 ELSE UI("text_area", r.value)
    IN  [ui |-> <<shown>> \o s.ui,
         extract_called |-> TRUE, extract |-> r,
         summarize_called |-> s.summarize_called, summarize |-> s.summarize]

\* lines 40-64: extraction, its error boundary, and what follows
main_extract(file_bytes, filename, button, world) ==
    LET r == extract_text(file_bytes, filename, None, world)
    IN  IF r.raised
        THEN [ui |-> <<UI("error", ErrExtract \o r.msg)>>,
              extract_called |-> TRUE, extract |-> r,
              summarize_called |-> FALSE, summarize |-> NotCalled]
        ELSE LET s == main_summarise(r.value, button, world)
             IN  [ui |-> <<UI("text_area", r.value)>> \o s.ui,
                  extract_called |-> TRUE, extract |-> r,
                  summarize_called |-> s.summarize_called, summarize |-> s.summarize]

\* one run of the script
main(uploaded_file, button, world) ==
    LET page == <<UI("title", <<>>), UI("markdown", <<>>), UI("file_uploader", <<>>)>>
        Stop(ui) == [ui |-> page \o ui,
                     extract_called |-> FALSE, extract |-> NotCalled,
                     summarize_called |-> FALSE, summarize |-> NotCalled]
    IN  IF ~uploaded_file.present THEN Stop(<<>>)
        ELSE IF exceeds_max_size(uploaded_file.bytes)
        THEN Stop(<<UI("error", ErrTooLarge)>>)
        ELSE LET r == main_extract(uploaded_file.bytes, uploaded_file.name,
                                   button, world)
             IN  [r EXCEPT !.ui = page \o r.ui]

\* --------------------------------------------------------------- inputs

SeqsUpTo(S, n) == UNION {[1..k -> S] : k \in 0..n}

Filenames ==
    {<<"a", ".", "p", "n", "g">>,
     <<"a", ".", "J", "P", "G">>,
     <<"b", ".", "J", "p", "e", "g">>,
     <<"a", ".", "p", "d", "f">>,
     <<"r", ".", "P", "D", "F">>,
     <<"a", ".", "d", "o", "c", "x">>,
     <<"a", ".", "D", "o", "c", "X">>,
     <<"n", ".", "t", "x", "t">>,
     <<"n", ".", "T", "X", "T">>,
     <<".", "p", "d", "f">>,
     <<"a", ".", "p", "d", "f", "/", "b">>,
     <<"a", ".", "t", "a", "r", ".", "G", "z">>}

Known ==
    {<<".", "p", "n", "g">>, <<".", "j", "p", "g">>, <<".", "j", "p", "e", "g">>,
     <<".", "p", "d", "f">>, <<".", "d", "o", "c", "x">>}

Images == {<<".", "p", "n", "g">>, <<".", "j", "p", "g">>, <<".", "j", "p", "e", "g">>}

\* A (U+0041); C3 A9 (U+00E9); the lead bytes E0 and ED, whose second byte is
\* restricted (E0 A0 82 is U+0802 and E0 82 A0 overlong, ED 82 A0 is U+D0A0
\* and ED A0 82 a surrogate); FF, never valid
ByteAlphabet == {65, 195, 169, 224, 237, 160, 130, 255}

Bytes(data) == [size |-> Len(data), data |-> data]

\* what page.extract_text() gives for a page
PageTexts == {None, <<>>, <<" ", "\n">>, <<"a">>, <<" ", "a", " ">>}

OcrOutcomes == {<<>>, <<"b">>, TesseractError}

DocxOutcomes == {<<>>, <<"d">>, DocxError}

Langs == {None, <<>>, <<"e", "n", "g">>}

Texts == {<<>>, <<"t">>}

ApiKeys == {None, <<>>, <<"k", "1">>}

EnvKeys == {None, <<"k", "2">>}

Reply(type, attr_content, key_content, str) ==
    [type |-> type, attr_content |-> attr_content, key_content |-> key_content,
     str |-> str]

Replies ==
    {Reply("AIMessage", <<"X">>, Absent, <<"c", "o", "n", "t", "e", "n", "t", "=", "'", "X", "'">>),
     Reply("AIMessage", <<>>, Absent, <<"c", "o", "n", "t", "e", "n", "t", "=", "'", "'">>),
     Reply("dict", Absent, <<"Y">>, <<"{", "'", "c", "o", "n", "t", "e", "n", "t", "'", ":", " ", "'", "Y", "'", "}">>),
     Reply("dict", Absent, Absent, <<"{", "}">>),
     Reply("dict subclass", <<"X">>, <<"Y">>, <<"{", "'", "c", "o", "n", "t", "e", "n", "t", "'", ":", " ", "'", "Y", "'", "}">>),
     Reply("str", Absent, Absent, <<"Z">>),
     Reply("str", Absent, Absent, <<>>)}

DefaultWorld ==
    [image_ok |-> TRUE, pdf_ok |-> TRUE, pages |-> <<>>,
     raster |-> [i \in 1..MaxPages |-> TRUE], ocr |-> [i \in 0..MaxPages |-> <<>>],
     docx |-> <<>>, invoke_ok |-> TRUE, reply |-> Reply("str", Absent, Absent, <<>>)]

Blank(page) == strip(IF Truthy(page) THEN page ELSE <<>>) = <<>>

ImageWorlds ==
    {[DefaultWorld EXCEPT !.image_ok = ok, !.ocr[0] = o] :
        ok \in BOOLEAN, o \in OcrOutcomes}

\* the rasteriser and the engine answer for the blank pages only
PdfWorldsUpTo(n) ==
    {[DefaultWorld EXCEPT !.pdf_ok = FALSE]} \cup
    {w \in {[DefaultWorld EXCEPT !.pages = ps, !.raster = r, !.ocr = o] :
               ps \in SeqsUpTo(PageTexts, n),
               r \in [1..MaxPages -> BOOLEAN],
               o \in [0..MaxPages -> OcrOutcomes]} :
        /\ w.ocr[0] = <<>>
        /\ \A i \in 1..MaxPages :
              /\ (i > Len(w.pages) \/ ~Blank(w.pages[i])) => w.raster[i]
              /\ (i > Len(w.pages) \/ ~Blank(w.pages[i]) \/ ~w.raster[i])
                    => w.ocr[i] = <<>>}

PdfWorlds == PdfWorldsUpTo(MaxPages)

\* the PDFs uploaded in the runs of the UI: one page at most
UiPdfWorlds == PdfWorldsUpTo(1)

DocxWorlds == {[DefaultWorld EXCEPT !.docx = d] : d \in DocxOutcomes}

ExtractWorlds(filename, pdfs) ==
    LET ext == lower(splitext(filename)[2])
    IN  IF ext \in Images THEN ImageWorlds
        ELSE IF ext = <<".", "p", "d", "f">> THEN pdfs
        ELSE IF ext = <<".", "d", "o", "c", "x">> THEN DocxWorlds
        ELSE {DefaultWorld}

FileBytesFor(filename) ==
    IF lower(splitext(filename)[2]) \in Known THEN {Bytes(<<80, 75>>)}
    ELSE {Bytes(d) : d \in SeqsUpTo(ByteAlphabet, MaxBytes)}

LangsFor(filename) ==
    IF lower(splitext(filename)[2]) \in Images THEN Langs ELSE {None}

SummaryWorlds(w, replies) ==
    {[w EXCEPT !.invoke_ok = FALSE]} \cup {[w EXCEPT !.reply = r] : r \in replies}

\* the replies in the runs of the UI
UiReplies == {r \in Replies : r.type \in {"AIMessage", "str"}}

\* an upload: the file the widget holds, by name, length and (for the short
\* files only) content
NoUpload == [present |-> FALSE, name |-> <<>>, bytes |-> Bytes(<<>>)]

Sizes == {2} \cup ((max_size - SizeMargin)..(max_size + SizeMargin))

UploadNames == {g \in Filenames : file_uploader_accepts(g)}

Uploads ==
    {NoUpload} \cup
    {[present |-> TRUE, name |-> f, bytes |-> [size |-> n, data |-> <<80, 75>>]] :
        f \in UploadNames, n \in Sizes}

\* ------------------------------------------------------------ behaviours

NoCall == [op |-> "none"]

Init ==
    /\ pc = "idle"
    /\ call = NoCall
    /\ tmpfiles = 0
    /\ environ \in EnvKeys
    /\ _PDF2IMAGE_AVAILABLE \in BOOLEAN

\* a call of extract_text(file_bytes, filename, lang=lang)
ExtractText ==
    /\ pc = "idle"
    /\ \E filename \in Filenames :
         \E lang \in LangsFor(filename), file_bytes \in FileBytesFor(filename),
            world \in ExtractWorlds(filename, PdfWorlds) :
            LET r == extract_text(file_bytes, filename, lang, world)
            IN  /\ tmpfiles + r.tmp_left <= MaxTmpFiles
                /\ call' = [op |-> "extract_text",
                            args |-> [file_bytes |-> file_bytes, filename |-> filename,
                                      lang |-> lang],
                            world |-> world, result |-> r]
                /\ tmpfiles' = tmpfiles + r.tmp_left
    /\ pc' = "done"
    /\ UNCHANGED <<environ, _PDF2IMAGE_AVAILABLE>>

\* a call of summarize_text(text, api_key=api_key)
SummarizeText ==
    /\ pc = "idle"
    /\ \E text \in Texts, api_key \in ApiKeys, world \in SummaryWorlds(DefaultWorld, Replies) :
         call' = [op |-> "summarize_text",
                  args |-> [text |-> text, api_key |-> api_key],
                  world |-> world, result |-> summarize_text(text, api_key, world)]
    /\ pc' = "done"
    /\ UNCHANGED <<tmpfiles, environ, _PDF2IMAGE_AVAILABLE>>

\* one run of the Streamlit script: the widgets' state is the input
Main ==
    /\ pc = "idle"
    /\ \E uploaded_file \in Uploads, button \in BOOLEAN :
         \E w \in ExtractWorlds(uploaded_file.name, UiPdfWorlds) :
            \E world \in SummaryWorlds(w, UiReplies) :
               LET run == main(uploaded_file, button, world)
               IN  /\ tmpfiles + run.extract.tmp_left <= MaxTmpFiles
                   /\ call' = [op |-> "main",
                               args |-> [uploaded_file |-> uploaded_file,
                                         button |-> button],
                               world |-> world, result |-> run]
                   /\ tmpfiles' = tmpfiles + run.extract.tmp_left
    /\ pc' = "done"
    /\ UNCHANGED <<environ, _PDF2IMAGE_AVAILABLE>>

\* the call has ended and its caller goes on
Done ==
    /\ pc = "done"
    /\ pc' = "idle"
    /\ call' = NoCall
    /\ UNCHANGED <<tmpfiles, environ, _PDF2IMAGE_AVAILABLE>>

Next == ExtractText \/ SummarizeText \/ Main \/ Done

Spec == Init /\ [][Next]_vars

\* --------------------------------------------------------------- claims

ExtOf(filename) == lower(splitext(filename)[2])

SummarizeCall == pc = "done" /\ call.op = "summarize_text"

ExtractCall == pc = "done" /\ call.op = "extract_text"

MainRun == pc = "done" /\ call.op = "main"

\* a call of extract_text on a PDF that the reader opens
PdfCall ==
    /\ ExtractCall
    /\ ExtOf(call.args.filename) = <<".", "p", "d", "f">>
    /\ call.world.pdf_ok

Calls(events, fn) == SelectSeq(events, LAMBDA e : e.fn = fn)

\* the text layer of a page, empty when the page has none
TextOf(page) == IF page = None THEN <<>> ELSE page

BlankPages(pages) ==
    {i \in 1..Len(pages) : \A k \in 1..Len(TextOf(pages[i])) :
                              TextOf(pages[i])[k] \in {" ", "\n", "\t", "\r"}}

\* texts joined by sep, sep between consecutive texts only
RECURSIVE Join(_, _)
Join(texts, sep) ==
    IF texts = <<>> THEN <<>>
    ELSE IF Len(texts) = 1 THEN texts[1]
    ELSE texts[1] \o sep \o Join(Tail(texts), sep)

\* where text i starts in a string that holds each text followed by one newline
RECURSIVE Offset(_, _)
Offset(texts, i) ==
    IF i = 1 THEN 0 ELSE Offset(texts, i - 1) + Len(texts[i - 1]) + 1

\* value holds, in order, each text followed by one newline, and nothing else
NewlineTerminated(value, texts) ==
    /\ Len(value) = Offset(texts, Len(texts) + 1)
    /\ \A i \in 1..Len(texts) :
          /\ SubSeq(value, Offset(texts, i) + 1, Offset(texts, i) + Len(texts[i]))
                = texts[i]
          /\ value[Offset(texts, i) + Len(texts[i]) + 1] = "\n"

\* C1: whenever the explicit key or the environment variable is set,
\* summarize_text builds the model client with the explicit key when one was
\* passed and with the environment variable's value otherwise (and so does
\* not fail on credential resolution).
C1_ExplicitKeyThenEnvironment ==
    (SummarizeCall /\ (Truthy(call.args.api_key) \/ Truthy(environ))) =>
        \E k \in 1..Len(call.result.events) :
            /\ call.result.events[k].fn = "ChatGoogleGenerativeAI"
            /\ call.result.events[k].config =
                  IF Truthy(call.args.api_key) THEN call.args.api_key ELSE environ

\* C2: with no explicit key and the environment variable unset, summarize_text
\* raises the ValueError about the missing Google API key, and builds no
\* client and invokes no model.
C2_MissingCredentialValueError ==
    (SummarizeCall /\ call.args.api_key = None /\ environ = None) =>
        /\ call.result.raised
        /\ call.result.exc = "ValueError"
        /\ call.result.msg = NoApiKey
        /\ call.result.events = <<>>

\* C3: no temporary file created by extract_text is left when a call has ended:
\* the number of leftover temporary files is zero after any sequence of calls.
C3_NoTemporaryFileLeft == tmpfiles = 0

\* C4 as stated: a PDF whose pages are all blank, with no rasteriser, gives the
\* empty string without raising.
C4_EmptyString ==
    (PdfCall /\ ~_PDF2IMAGE_AVAILABLE
        /\ BlankPages(call.world.pages) = 1..Len(call.world.pages)) =>
        /\ ~call.result.raised
        /\ call.result.value = <<>>

\* C4 as amended: a PDF whose pages are all blank, with no rasteriser, gives
\* without raising, and without a call of the rasteriser or the engine, each
\* page's blank text layer followed by a newline: a whitespace-only string,
\* empty only when the PDF has no page.
C4_BlankPagesWhitespaceOnly ==
    (PdfCall /\ ~_PDF2IMAGE_AVAILABLE
        /\ BlankPages(call.world.pages) = 1..Len(call.world.pages)) =>
        LET pages == call.world.pages
            r == call.result
        IN  /\ ~r.raised
            /\ Calls(r.events, "convert_from_bytes") = <<>>
            /\ Calls(r.events, "pytesseract.image_to_string") = <<>>
            /\ NewlineTerminated(r.value, [i \in 1..Len(pages) |-> TextOf(pages[i])])
            /\ \A k \in 1..Len(r.value) : r.value[k] \in {" ", "\n", "\t", "\r"}
            /\ (r.value = <<>>) <=> (pages = <<>>)

C4_Witness ==
    /\ PdfCall /\ ~_PDF2IMAGE_AVAILABLE
    /\ Len(call.world.pages) = 2
    /\ BlankPages(call.world.pages) = {1, 2}
    /\ call.world.pages[1] = None
    /\ call.world.pages[2] = <<" ", "\n">>
    /\ call.result.value = <<"\n", " ", "\n", "\n">>

\* C5 as stated: a PDF whose pages all have a non-blank text layer gives the
\* pages' texts joined by newlines, a newline between consecutive pages only,
\* and neither the rasteriser nor the engine is called.
C5_JoinedBySeparators ==
    (PdfCall /\ BlankPages(call.world.pages) = {}) =>
        /\ ~call.result.raised
        /\ call.result.value = Join(call.world.pages, <<"\n">>)
        /\ Calls(call.result.events, "convert_from_bytes") = <<>>
        /\ Calls(call.result.events, "pytesseract.image_to_string") = <<>>

\* C5 as amended: a PDF whose pages all have a non-blank text layer gives the
\* pages' texts in page order, each followed by a newline (the last one too),
\* and neither the rasteriser nor the engine is called.
C5_NewlineAfterEachPage ==
    (PdfCall /\ BlankPages(call.world.pages) = {}) =>
        /\ ~call.result.raised
        /\ NewlineTerminated(call.result.value, call.world.pages)
        /\ Calls(call.result.events, "convert_from_bytes") = <<>>
        /\ Calls(call.result.events, "pytesseract.image_to_string") = <<>>

C5_Witness ==
    /\ PdfCall /\ _PDF2IMAGE_AVAILABLE
    /\ call.world.pages = << <<"a">>, <<" ", "a", " ">> >>
    /\ call.result.value = <<"a", "\n", " ", "a", " ", "\n">>

\* C6: given a credential by the order of C1 and a reply of the model client,
\* summarize_text returns the reply's content attribute when it has one,
\* else its "content" item when it is a mapping that holds one, else the reply
\* as a string: "X" for an object with content "X", "Y" for {"content": "Y"},
\* "Z" for the string "Z".
C6_ReplyUnwrapped ==
    (SummarizeCall /\ call.world.invoke_ok
        /\ (Truthy(call.args.api_key) \/ Truthy(environ))) =>
        LET reply == call.world.reply
        IN  /\ ~call.result.raised
            /\ call.result.value =
                  IF reply.attr_content # Absent THEN reply.attr_content
                  ELSE IF reply.type \in {"dict", "dict subclass"}
                          /\ reply.key_content # Absent
                  THEN reply.key_content
                  ELSE reply.str

\* C7: in every run of the UI, a failure of extract_text is caught and shown
\* as an extraction error and summarize_text is not called in that run, button
\* pressed or not; summarize_text is called only after extract_text has
\* returned in the same run.
C7_ExtractionFailureHaltsRun ==
    MainRun =>
        LET run == call.result
        IN  /\ (run.extract_called /\ run.extract.raised) =>
                  /\ run.ui[Len(run.ui)] = UI("error", ErrExtract \o run.extract.msg)
                  /\ ~run.summarize_called
                  /\ run.summarize.events = <<>>
                  /\ \A k \in 1..Len(run.ui) :
                        run.ui[k].widget \notin {"button", "subheader", "write", "warning"}
            /\ run.summarize_called =>
                  /\ run.extract_called
                  /\ ~run.extract.raised

C7_Witness ==
    /\ MainRun
    /\ call.args.button
    /\ call.result.extract_called
    /\ call.result.extract.raised
    /\ ~call.result.summarize_called

\* C8: in every run of the UI, an upload of more than 10 * 1024 * 1024 bytes
\* is rejected with an error on the page and neither extract_text nor
\* summarize_text is called; an upload of at most that size goes to
\* extract_text.
C8_SizeLimit ==
    (MainRun /\ call.args.uploaded_file.present) =>
        LET run == call.result
            size == call.args.uploaded_file.bytes.size
        IN  /\ size > 10 * 1024 * 1024 =>
                  /\ run.ui[Len(run.ui)] = UI("error", ErrTooLarge)
                  /\ ~run.extract_called
                  /\ ~run.summarize_called
            /\ size <= 10 * 1024 * 1024 => run.extract_called

C8_Witness ==
    /\ MainRun
    /\ call.args.uploaded_file.present
    /\ call.args.uploaded_file.bytes.size = 10 * 1024 * 1024 + 1
    /\ call.args.button
    /\ ~call.result.extract_called

\* UTF-8 by its encoder: the bytes of a code point
EncodeCodePoint(cp) ==
    IF cp < 128 THEN <<cp>>
    ELSE IF cp < 2048 THEN <<192 + (cp \div 64), 128 + (cp % 64)>>
    ELSE IF cp < 65536
    THEN <<224 + (cp \div 4096), 128 + ((cp \div 64) % 64), 128 + (cp % 64)>>
    ELSE <<240 + (cp \div 262144), 128 + ((cp \div 4096) % 64),
           128 + ((cp \div 64) % 64), 128 + (cp % 64)>>

\* the payload bits of a chunk of 1 to 4 bytes
PayloadOf(chunk) ==
    IF Len(chunk) = 1 THEN chunk[1]
    ELSE IF Len(chunk) = 2 THEN ((chunk[1] % 32) * 64) + (chunk[2] % 64)
    ELSE IF Len(chunk) = 3
    THEN ((chunk[1] % 16) * 4096) + ((chunk[2] % 64) * 64) + (chunk[3] % 64)
    ELSE ((chunk[1] % 8) * 262144) + ((chunk[2] % 64) * 4096)
            + ((chunk[3] % 64) * 64) + (chunk[4] % 64)

\* chunk is the encoding of a Unicode scalar value
EncodesScalar(chunk) ==
    LET cp == PayloadOf(chunk)
    IN  /\ cp \in 0..1114111
        /\ cp \notin 55296..57343
        /\ EncodeCodePoint(cp) = chunk

\* the lengths k for which the first k bytes of data encode a scalar value
FirstChunks(data) ==
    {k \in 1..(IF Len(data) < 4 THEN Len(data) ELSE 4) :
        EncodesScalar(SubSeq(data, 1, k))}

\* data is a concatenation of encodings of scalar values
RECURSIVE WellFormed(_)
WellFormed(data) ==
    \/ data = <<>>
    \/ \E k \in FirstChunks(data) : WellFormed(SubSeq(data, k + 1, Len(data)))

\* the characters a well-formed data encodes
RECURSIVE Decoded(_)
Decoded(data) ==
    IF data = <<>> THEN <<>>
    ELSE LET k == CHOOSE k \in FirstChunks(data) :
                     WellFormed(SubSeq(data, k + 1, Len(data)))
         IN  <<chr(PayloadOf(SubSeq(data, 1, k)))>>
                \o Decoded(SubSeq(data, k + 1, Len(data)))

\* C9: for a filename whose extension, lower-cased, is none of .png, .jpg,
\* .jpeg, .pdf, .docx, extract_text returns the characters the bytes encode in
\* UTF-8 when they are well-formed UTF-8, and otherwise raises a ValueError
\* whose message is "Unsupported file format: " and the lower-cased
\* extension; it calls no OCR, PDF or DOCX reader and leaves no file.
C9_Utf8OrUnsupported ==
    (ExtractCall /\ ExtOf(call.args.filename) \notin Known) =>
        LET data == call.args.file_bytes.data
            r == call.result
        IN  /\ r.events = <<>>
            /\ r.tmp_left = 0
            /\ WellFormed(data) => (~r.raised /\ r.value = Decoded(data))
            /\ ~WellFormed(data) =>
                  /\ r.raised
                  /\ r.exc = "ValueError"
                  /\ r.msg = Unsupported \o ExtOf(call.args.filename)

C9_Witness ==
    /\ ExtractCall
    /\ call.args.filename = <<"n", ".", "T", "X", "T">>
    /\ call.args.file_bytes.data = <<65, 224, 130>>
    /\ call.result.raised
    /\ call.result.msg = Unsupported \o <<".", "t", "x", "t">>

\* C10: for a PDF with the rasteriser available, the fallback is per page:
\* the rasteriser is called on single pages (first_page = last_page = page
\* index + 1), in page order, on blank pages only and on none of them twice,
\* and the engine on their images only; no blank page is passed over; and when
\* extract_text returns, exactly the blank pages have been rasterised and
\* recognised, and each page's text is its text layer followed, for a blank
\* page, by the engine's output.
C10_PerPageFallback ==
    (PdfCall /\ _PDF2IMAGE_AVAILABLE) =>
        LET pages == call.world.pages
            r == call.result
            raster == Calls(r.events, "convert_from_bytes")
            ocr == Calls(r.events, "pytesseract.image_to_string")
            blank == BlankPages(pages)
            PagesOf(calls) == {calls[k].first : k \in 1..Len(calls)}
        IN  /\ \A k \in 1..Len(raster) :
                  /\ raster[k].first = raster[k].last
                  /\ raster[k].first \in blank
            /\ \A k \in 1..(Len(raster) - 1) : raster[k].first < raster[k + 1].first
            /\ \A k \in 1..Len(ocr) : ocr[k].first \in PagesOf(raster)
            /\ \A k \in 1..(Len(ocr) - 1) : ocr[k].first < ocr[k + 1].first
            /\ \A i \in blank, j \in PagesOf(raster) : i < j => i \in PagesOf(ocr)
            /\ ~r.raised =>
                  /\ PagesOf(raster) = blank
                  /\ PagesOf(ocr) = blank
                  /\ NewlineTerminated(r.value,
                        [i \in 1..Len(pages) |->
                            TextOf(pages[i])
                              \o (IF i \in blank THEN call.world.ocr[i] ELSE <<>>)])

C10_Witness ==
    /\ PdfCall /\ _PDF2IMAGE_AVAILABLE
    /\ call.world.pages = << <<"a">>, <<" ", "\n">> >>
    /\ call.world.ocr[2] = <<"b">>
    /\ ~call.result.raised
    /\ call.result.value = <<"a", "\n", " ", "\n", "b", "\n">>
    /\ Calls(call.result.events, "convert_from_bytes")
          = <<Ev("convert_from_bytes", 2, 2, <<>>)>>

====
